---- MODULE Spec2Model ----
(***************************************************************************)
(* A model of src/index.js: the order backend of freshkart.                *)
(*                                                                         *)
(*   extractOrder(message)   the completion call, the cleansing of its     *)
(*                           text, JSON.parse, and the retry loop          *)
(*   POST /orders            validation, row building, the batch append    *)
(*   GET  /orders            the read of the range and the record mapping  *)
(*                                                                         *)
(* Every request runs in its own slot and is suspended at each await of    *)
(* the source (generateContent, setTimeout, auth.getClient, values.append, *)
(* values.get); the slots interleave at these points, as the handlers do   *)
(* on the event loop.  The sheet is the only state the requests share.     *)
(* Time passes only while every running request waits on a timer: the      *)
(* clock then jumps to the earliest deadline.                              *)
(***************************************************************************)
EXTENDS Integers, Sequences, FiniteSets, TLC

(***************************************************************************)
(* Bounds of the model.                                                    *)
(***************************************************************************)
MaxRequests == 2

(***************************************************************************)
(* JavaScript values.  An object is the sequence of its members in         *)
(* insertion order.  Each type keeps its payload in a field of its own, so *)
(* that values of different types compare unequal.                         *)
(***************************************************************************)
Undefined == [t |-> "undefined"]
Null == [t |-> "null"]
Str(s) == [t |-> "string", s |-> s]
Num(n) == [t |-> "number", n |-> n]
Arr(s) == [t |-> "array", a |-> s]
Obj(members) == [t |-> "object", o |-> members]
Member(key, val) == [key |-> key, val |-> val]

\* !v of JavaScript
Falsy(v) ==
    \/ v.t \in {"undefined", "null"}
    \/ v.t = "string" /\ v.s = ""
    \/ v.t = "number" /\ v.n = 0

\* Array.isArray(v)
IsArray(v) == v.t = "array"

\* the indices of the members of object o named key
MemberIdx(o, key) == {i \in 1..Len(o.o) : o.o[i].key = key}

\* o.key for a value that is neither null nor undefined: a member of an
\* object, undefined for a missing member and for a member of a primitive
\* or of an array (the keys read by the source are never array properties)
Get(o, key) ==
    IF o.t = "object" /\ MemberIdx(o, key) # {}
    THEN o.o[CHOOSE i \in MemberIdx(o, key) : \A j \in MemberIdx(o, key) : j <= i].val
    ELSE Undefined

\* o.key throws a TypeError when o is null or undefined
GetThrows(o) == o.t \in {"undefined", "null"}

\* a || ""
OrEmpty(v) == IF Falsy(v) THEN Str("") ELSE v

\* row[i] with the 0-based index of the source
Index(row, i) == IF i + 1 <= Len(row) THEN row[i + 1] ELSE Undefined

(***************************************************************************)
(* Errors.                                                                 *)
(***************************************************************************)
Error(name, status, message) == [name |-> name, status |-> status, message |-> message]

RATE_LIMIT_STATUS == 429

RateLimitError == Error("ApiError", Num(RATE_LIMIT_STATUS), "quota exceeded")
ServerError == Error("ApiError", Num(500), "internal error")
NetworkError == Error("FetchError", Undefined, "fetch failed")
SyntaxError == Error("SyntaxError", Undefined, "Unexpected token in JSON")
TypeError == Error("TypeError", Undefined, "Cannot read properties of undefined")
StorageError == Error("GaxiosError", Num(503), "storage unavailable")
ExhaustedError == Error("Error", Undefined, "Gemini API exhausted or returned invalid JSON.")

(***************************************************************************)
(* Text.  A text is the sequence of its lexemes: punctuation, string and   *)
(* number literals, bare words, white space and the code-fence marker.     *)
(* A string literal holds no brace and no back-tick.                       *)
(***************************************************************************)
P(c) == [k |-> "punct", x |-> c]
S(s) == [k |-> "str", x |-> s]
N(n) == [k |-> "num", n |-> n]
W(w) == [k |-> "word", x |-> w]
WS == [k |-> "ws", x |-> " "]
\* the marker of a code fence: three back-ticks
Fence == [k |-> "fence", x |-> "fence"]

\* the text of a JSON value, as the completion service writes it
RECURSIVE Stringify(_)
RECURSIVE StringifyAll(_, _)
StringifyAll(vals, isObject) ==
    IF vals = <<>> THEN <<>>
    ELSE (IF isObject
          THEN <<S(Head(vals).key), P(":")>> \o Stringify(Head(vals).val)
          ELSE Stringify(Head(vals)))
         \o (IF Len(vals) > 1 THEN <<P(",")>> ELSE <<>>)
         \o StringifyAll(Tail(vals), isObject)
Stringify(v) ==
    CASE v.t = "string" -> <<S(v.s)>>
      [] v.t = "number" -> <<N(v.n)>>
      [] v.t = "null" -> <<W("null")>>
      [] v.t = "array" -> <<P("[")>> \o StringifyAll(v.a, FALSE) \o <<P("]")>>
      [] v.t = "object" -> <<P("{")>> \o StringifyAll(v.o, TRUE) \o <<P("}")>>

(***************************************************************************)
(* Response cleansing (extractOrder, the body of the try block).           *)
(***************************************************************************)
\* text.trim(): white space is dropped at both ends
RECURSIVE TrimLeft(_)
TrimLeft(s) == IF s # <<>> /\ Head(s) = WS THEN TrimLeft(Tail(s)) ELSE s
RECURSIVE TrimRight(_)
TrimRight(s) ==
    IF s # <<>> /\ s[Len(s)] = WS THEN TrimRight(SubSeq(s, 1, Len(s) - 1)) ELSE s
Trim(s) == TrimLeft(TrimRight(s))

\* text.replace(/```json/g, ""): every fence marker directly followed by
\* the word json goes, in one pass from the left
RECURSIVE RemoveFenceJson(_)
RemoveFenceJson(s) ==
    IF s = <<>> THEN <<>>
    ELSE IF Len(s) >= 2 /\ s[1] = Fence /\ s[2] = W("json")
         THEN RemoveFenceJson(SubSeq(s, 3, Len(s)))
         ELSE <<Head(s)>> \o RemoveFenceJson(Tail(s))

\* text.replace(/```/g, "")
RemoveFence(s) == SelectSeq(s, LAMBDA tok : tok # Fence)

\* text.replace(/```json/g, "").replace(/```/g, "").trim()
StripFences(s) == Trim(RemoveFence(RemoveFenceJson(s)))

\* the positions of punctuation c in s
Positions(s, c) == {i \in 1..Len(s) : s[i] = P(c)}
Min(set) == CHOOSE i \in set : \A j \in set : i <= j
Max(set) == CHOOSE i \in set : \A j \in set : j <= i

\* a lazy pattern, /\{[\s\S]*?\}/: the match ends at the first closing brace
FirstBrace(s, from) == Min({j \in Positions(s, "}") : j > from})

\* the end of the match of /\{[\s\S]*\}/ that starts at position from:
\* the pattern is greedy, the match runs to the last closing brace
LastBrace(s, from) == Max({j \in Positions(s, "}") : j > from})

\* text.match(/\{[\s\S]*\}/): the leftmost opening brace that a closing
\* brace follows; no match gives null
HasMatch(s) ==
    /\ Positions(s, "{") # {}
    /\ \E j \in Positions(s, "}") : j > Min(Positions(s, "{"))
MatchJson(s) == SubSeq(s, Min(Positions(s, "{")), LastBrace(s, Min(Positions(s, "{"))))

\* jsonMatch ? jsonMatch[0] : text
CleanJson(text) == IF HasMatch(text) THEN MatchJson(text) ELSE text

(***************************************************************************)
(* JSON.parse: a recursive-descent parser of the lexemes; white space      *)
(* between lexemes is insignificant.  A result is [ok, val, next]: next is *)
(* the position after the value.                                           *)
(***************************************************************************)
Parsed(val, next) == [ok |-> TRUE, val |-> val, next |-> next]
ParseFail == [ok |-> FALSE, val |-> Undefined, next |-> 0]

Lexemes(s) == SelectSeq(s, LAMBDA tok : tok # WS)

\* the members with a repeated key keep the last value, at the place of
\* the first
PutMember(members, key, val) ==
    IF \E i \in 1..Len(members) : members[i].key = key
    THEN [i \in 1..Len(members) |->
            IF members[i].key = key THEN Member(key, val) ELSE members[i]]
    ELSE Append(members, Member(key, val))

RECURSIVE ParseValue(_, _)
RECURSIVE ParseElements(_, _, _)
RECURSIVE ParseMembers(_, _, _)

\* after "[" or ",": a value, then "," or "]"
ParseElements(s, i, acc) ==
    LET r == ParseValue(s, i) IN
    IF ~r.ok \/ r.next > Len(s) THEN ParseFail
    ELSE IF s[r.next] = P("]") THEN Parsed(Arr(Append(acc, r.val)), r.next + 1)
    ELSE IF s[r.next] = P(",") THEN ParseElements(s, r.next + 1, Append(acc, r.val))
    ELSE ParseFail

\* after "{" or ",": a string, ":", a value, then "," or "}"
ParseMembers(s, i, acc) ==
    IF i + 1 > Len(s) \/ s[i].k # "str" \/ s[i + 1] # P(":") THEN ParseFail
    ELSE LET r == ParseValue(s, i + 2) IN
         IF ~r.ok \/ r.next > Len(s) THEN ParseFail
         ELSE IF s[r.next] = P("}")
              THEN Parsed(Obj(PutMember(acc, s[i].x, r.val)), r.next + 1)
         ELSE IF s[r.next] = P(",")
              THEN ParseMembers(s, r.next + 1, PutMember(acc, s[i].x, r.val))
         ELSE ParseFail

ParseValue(s, i) ==
    IF i > Len(s) THEN ParseFail
    ELSE CASE s[i].k = "str" -> Parsed(Str(s[i].x), i + 1)
           [] s[i].k = "num" -> Parsed(Num(s[i].n), i + 1)
           [] s[i] = W("null") -> Parsed(Null, i + 1)
           [] s[i] = P("[") ->
                IF i + 1 <= Len(s) /\ s[i + 1] = P("]")
                THEN Parsed(Arr(<<>>), i + 2)
                ELSE ParseElements(s, i + 1, <<>>)
           [] s[i] = P("{") ->
                IF i + 1 <= Len(s) /\ s[i + 1] = P("}")
                THEN Parsed(Obj(<<>>), i + 2)
                ELSE ParseMembers(s, i + 1, <<>>)
           [] OTHER -> ParseFail

\* JSON.parse(text): the value, or a SyntaxError (ok = FALSE)
JSONParse(text) ==
    LET s == Lexemes(text)
        r == ParseValue(s, 1)
    IN  IF r.ok /\ r.next = Len(s) + 1 THEN r ELSE ParseFail


(***************************************************************************)
(* What the completion service may answer.                                 *)
(***************************************************************************)
LineItem(item, quantity, unit, price, total) ==
    Obj(<<Member("item", Str(item)), Member("quantity", Num(quantity)),
          Member("unit", Str(unit)), Member("price", Num(price)),
          Member("total_price", Num(total))>>)

Chicken == LineItem("chicken", 2, "kg", 180, 360)
Wings == LineItem("wings", 1, "kg", 190, 190)
Mutton == LineItem("mutton", 1, "kg", 600, 600)

OrderTwoItems ==
    Obj(<<Member("customer_name", Str("Asha")), Member("payment_mode", Str("UPI")),
          Member("items", Arr(<<Chicken, Wings>>))>>)
OrderOneItem ==
    Obj(<<Member("customer_name", Str("Ravi")), Member("payment_mode", Str("Cash")),
          Member("items", Arr(<<Mutton>>))>>)
OrderNoItem == Obj(<<Member("customer_name", Str("A")), Member("items", Arr(<<>>))>>)
OrderItemsMissing == Obj(<<Member("customer_name", Str("A"))>>)
OrderItemsNotArray == Obj(<<Member("items", Str("chicken"))>>)
OrderNullItem == Obj(<<Member("customer_name", Str("A")), Member("items", Arr(<<Null>>))>>)
ItemList == Arr(<<Chicken, Wings>>)

Texts ==
    { Stringify(OrderTwoItems),
      <<Fence, W("json"), WS>> \o Stringify(OrderOneItem) \o <<WS, Fence>>,
      <<W("Here"), WS, W("it"), WS, W("is"), WS>> \o Stringify(OrderNoItem) \o <<WS>>,
      Stringify(OrderItemsMissing),
      Stringify(OrderItemsNotArray),
      Stringify(OrderNullItem),
      Stringify(ItemList),
      <<W("null")>>,
      <<W("Sorry"), WS, W("no"), WS, W("order")>> }

\* the outcome of one generateContent call: an error, or a response with
\* its candidate texts
Failure(error) == [kind |-> "error", error |-> error]
Response(texts) == [kind |-> "response", texts |-> texts]

Outcomes ==
    {Failure(RateLimitError), Failure(ServerError), Failure(NetworkError), Response(<<>>)}
    \cup {Response(<<text>>) : text \in Texts}

\* req.body.message
Messages == {Undefined, Str(""), Str("2kg chicken and 1kg wings for Asha, UPI")}

(***************************************************************************)
(* The sheet: the rows of the range Orders!A:J.                            *)
(***************************************************************************)
HeaderRow ==
    <<Str("Date"), Str("Item"), Str("Qty"), Str("Unit"), Str("Price"), Str("Total"),
      Str("Customer"), Str("Status"), Str("Payment")>>
ShortRow == <<Str("1/1/2025"), Str("liver")>>

InitialSheets == {<<>>, <<HeaderRow>>, <<HeaderRow, ShortRow>>}

(***************************************************************************)
(* extractOrder.                                                           *)
(***************************************************************************)
MAX_ATTEMPTS == 3
RETRY_DELAY_MS == 5000

Returned(val) == [state |-> "returned", val |-> val]
Threw(error) == [state |-> "threw", error |-> error]
Pending == [state |-> "pending"]

\* the try block: the call, candidates[0].content.parts[0].text, the
\* cleansing and JSON.parse
TryBlock(outcome) ==
    IF outcome.kind = "error" THEN Threw(outcome.error)
    ELSE IF outcome.texts = <<>> THEN Threw(TypeError)
    ELSE LET text == StripFences(Trim(outcome.texts[1]))
             parsed == JSONParse(CleanJson(text))
         IN  IF parsed.ok THEN Returned(parsed.val) ELSE Threw(SyntaxError)

\* every error retried: the catch without the status test
IsRateLimitedAlways(error) == TRUE

\* error.status === 429
IsRateLimited(error) == error.status = Num(RATE_LIMIT_STATUS)

\* the loop bound off by one: while (attempts <= 3)
LoopContinuesOffByOne(n) == n <= MAX_ATTEMPTS

\* while (attempts < 3)
LoopContinues(n) == n < MAX_ATTEMPTS

(***************************************************************************)
(* POST /orders and GET /orders: the pieces of the handlers.               *)
(***************************************************************************)
\* a test for the absent message only: message === undefined
MissingMessageUndefinedOnly(msg) == msg.t = "undefined"

\* !message
MissingMessage(msg) == Falsy(msg)

\* !orderData || !orderData.items || !Array.isArray(orderData.items)
Malformed(orderData) ==
    \/ Falsy(orderData)
    \/ Falsy(Get(orderData, "items"))
    \/ ~IsArray(Get(orderData, "items"))

\* new Date().toLocaleString()
ToLocaleString(time) == Str("t" \o ToString(time))

\* the row of one line item
RowOf(it, orderData, time) ==
    << ToLocaleString(time),
       Get(it, "item"),
       Get(it, "quantity"),
       Get(it, "unit"),
       Get(it, "price"),
       Get(it, "total_price"),
       Get(orderData, "customer_name"),
       Str("Pending"),
       Get(it, "payment_mode") >>

\* orderData.items.map(...) throws a TypeError when items has no map method
\* (it is no array) and when an item is null
MapThrows(orderData) ==
    \/ GetThrows(orderData)
    \/ ~IsArray(Get(orderData, "items"))
    \/ \E i \in 1..Len(Get(orderData, "items").a) : GetThrows(Get(orderData, "items").a[i])

\* const values = orderData.items.map(...)
Values(orderData, time) ==
    [i \in 1..Len(Get(orderData, "items").a) |->
        RowOf(Get(orderData, "items").a[i], orderData, time)]

Reply(status, body) == [status |-> status, body |-> body]

MissingMessageResponse == Reply(400, [error |-> "Missing order message"])
MalformedResponse == Reply(500, [error |-> "Failed to parse message into multiple items"])
\* the catch without res.status(500): the answer goes out with status 200
CatchResponseNoStatus(error) == Reply(200, [success |-> FALSE, error |-> error.message])
CatchResponse(error) == Reply(500, [success |-> FALSE, error |-> error.message])
SavedResponse(orderData) ==
    Reply(200, [success |-> TRUE, order |-> orderData,
                message |-> "Multiple items saved successfully!"])
OrdersResponse(orders) == Reply(200, [success |-> TRUE, orders |-> orders])

\* the append not awaited: the success response whatever the call does
AppendSettledIgnored(ok, orderData) == SavedResponse(orderData)

\* what the handler answers once the append call has settled
AppendSettled(ok, orderData) ==
    IF ok THEN SavedResponse(orderData) ELSE CatchResponse(StorageError)

\* the header row kept: rows.slice(0)
DataRowsWithHeader(rows) == rows

\* rows.slice(1)
DataRows(rows) == Tail(rows)

\* the record of one row; index is the 0-based position in the result
Record(row, index) ==
    [ id |-> index + 1,
      datetime |-> OrEmpty(Index(row, 1)),
      item |-> OrEmpty(Index(row, 2)),
      quantity |-> OrEmpty(Index(row, 3)),
      unit |-> OrEmpty(Index(row, 4)),
      price |-> OrEmpty(Index(row, 5)),
      total_price |-> OrEmpty(Index(row, 6)),
      customer_name |-> OrEmpty(Index(row, 7)),
      status |-> OrEmpty(Index(row, 8)),
      payment_mode |-> OrEmpty(Index(row, 9)) ]

\* rows.slice(1).map((row, index) => ...)
Formatted(rows) == [k \in 1..Len(DataRows(rows)) |-> Record(DataRows(rows)[k], k - 1)]

\* response.data.values: the API leaves the field out when the range is empty
NoValues == [present |-> FALSE, rows |-> <<>>]
SomeValues(rows) == [present |-> TRUE, rows |-> rows]

\* what GET /orders answers to the values it read
OrdersOf(values) ==
    IF ~values.present \/ Len(values.rows) = 0 THEN <<>> ELSE Formatted(values.rows)


(***************************************************************************)
(* State.                                                                  *)
(***************************************************************************)
VARIABLES
    now,            \* the clock, in milliseconds
    sheet,          \* the rows of the range, in sheet order
    pc,             \* where each request is suspended
    method,         \* "POST", "GET", or "none" before the request arrives
    message,        \* req.body.message of a POST
    attempts,       \* the counter of extractOrder
    extractResult,  \* how extractOrder ended: its value or its error
    genCalls,       \* the generateContent calls made: [at, prompt]
    genReplies,     \* the outcomes of these calls
    sleeps,         \* the timers set by extractOrder: [at, ms]
    appendCalls,    \* the values of each values.append call
    appendReplies,  \* whether each append call succeeded
    readReplies,    \* what each values.get call returned
    responses       \* the responses sent: [status, body]

vars == <<now, sheet, pc, method, message, attempts, extractResult, genCalls,
          genReplies, sleeps, appendCalls, appendReplies, readReplies, responses>>

Requests == 1..MaxRequests

Init ==
    /\ now = 0
    /\ sheet \in InitialSheets
    /\ pc = [r \in Requests |-> "idle"]
    /\ method = [r \in Requests |-> "none"]
    /\ message = [r \in Requests |-> Undefined]
    /\ attempts = [r \in Requests |-> 0]
    /\ extractResult = [r \in Requests |-> Pending]
    /\ genCalls = [r \in Requests |-> <<>>]
    /\ genReplies = [r \in Requests |-> <<>>]
    /\ sleeps = [r \in Requests |-> <<>>]
    /\ appendCalls = [r \in Requests |-> <<>>]
    /\ appendReplies = [r \in Requests |-> <<>>]
    /\ readReplies = [r \in Requests |-> <<>>]
    /\ responses = [r \in Requests |-> <<>>]

\* the value extractOrder returned to the handler
OrderData(r) == extractResult[r].val

\* res.json(...): the response is sent and the handler ends
Respond(r, reply) ==
    /\ responses' = [responses EXCEPT ![r] = Append(@, reply)]
    /\ pc' = [pc EXCEPT ![r] = "done"]

\* extractOrder throws: the catch of the POST handler answers
ExtractThrows(r, error) ==
    /\ extractResult' = [extractResult EXCEPT ![r] = Threw(error)]
    /\ Respond(r, CatchResponse(error))

\* extractOrder returns: the handler checks the value and asks for the
\* storage client
ExtractReturns(r, val) ==
    /\ extractResult' = [extractResult EXCEPT ![r] = Returned(val)]
    /\ IF Malformed(val)
       THEN Respond(r, MalformedResponse)
       ELSE pc' = [pc EXCEPT ![r] = "getClient"] /\ UNCHANGED responses

\* the head of the while loop of extractOrder(msg) with the counter at n:
\* another call, or the throw after the loop
LoopHead(r, msg, n) ==
    /\ attempts' = [attempts EXCEPT ![r] = n]
    /\ IF LoopContinues(n)
       THEN /\ genCalls' = [genCalls EXCEPT ![r] = Append(@, [at |-> now, prompt |-> msg])]
            /\ pc' = [pc EXCEPT ![r] = "generate"]
            /\ UNCHANGED <<extractResult, responses>>
       ELSE /\ ExtractThrows(r, ExhaustedError)
            /\ UNCHANGED genCalls

\* a POST /orders request arrives
PostOrders(r, msg) ==
    /\ pc[r] = "idle"
    /\ method' = [method EXCEPT ![r] = "POST"]
    /\ message' = [message EXCEPT ![r] = msg]
    /\ IF MissingMessage(msg)
       THEN /\ Respond(r, MissingMessageResponse)
            /\ UNCHANGED <<attempts, extractResult, genCalls>>
       ELSE LoopHead(r, msg, 0)
    /\ UNCHANGED <<now, sheet, genReplies, sleeps, appendCalls, appendReplies, readReplies>>

\* generateContent settles with outcome
GenerateSettles(r, outcome) ==
    /\ pc[r] = "generate"
    /\ genReplies' = [genReplies EXCEPT ![r] = Append(@, outcome)]
    /\ LET result == TryBlock(outcome) IN
       IF result.state = "returned"
       THEN ExtractReturns(r, result.val) /\ UNCHANGED sleeps
       ELSE IF IsRateLimited(result.error)
            THEN /\ sleeps' = [sleeps EXCEPT ![r] = Append(@, [at |-> now, ms |-> RETRY_DELAY_MS])]
                 /\ pc' = [pc EXCEPT ![r] = "sleep"]
                 /\ UNCHANGED <<extractResult, responses>>
            ELSE ExtractThrows(r, result.error) /\ UNCHANGED sleeps
    /\ UNCHANGED <<now, sheet, method, message, attempts, genCalls, appendCalls,
                   appendReplies, readReplies>>

\* the deadline of the timer request r sleeps on
Deadline(r) == sleeps[r][Len(sleeps[r])].at + sleeps[r][Len(sleeps[r])].ms

Sleepers == {r \in Requests : pc[r] = "sleep"}

\* the timer of request r fires: attempts++ and back to the loop head
TimerFires(r) ==
    /\ pc[r] = "sleep"
    /\ now >= Deadline(r)
    /\ LoopHead(r, message[r], attempts[r] + 1)
    /\ UNCHANGED <<now, sheet, method, message, genReplies, sleeps, appendCalls,
                   appendReplies, readReplies>>

\* time passes, up to the earliest deadline
Tick ==
    /\ Sleepers # {}
    /\ \A r \in Sleepers : now < Deadline(r)
    /\ now' = Min({Deadline(r) : r \in Sleepers})
    /\ UNCHANGED <<sheet, pc, method, message, attempts, extractResult, genCalls,
                   genReplies, sleeps, appendCalls, appendReplies, readReplies, responses>>

\* auth.getClient() of the POST handler settles; on success the rows are
\* built and the append call is made
GetClientSettles(r, ok) ==
    /\ pc[r] = "getClient"
    /\ IF ok /\ ~MapThrows(OrderData(r))
       THEN /\ appendCalls' = [appendCalls EXCEPT ![r] = Append(@, Values(OrderData(r), now))]
            /\ pc' = [pc EXCEPT ![r] = "append"]
            /\ UNCHANGED responses
       ELSE /\ Respond(r, CatchResponse(IF ok THEN TypeError ELSE StorageError))
            /\ UNCHANGED appendCalls
    /\ UNCHANGED <<now, sheet, method, message, attempts, extractResult, genCalls,
                   genReplies, sleeps, appendReplies, readReplies>>

\* values.append settles: on success the rows stand after the rows of the
\* sheet
AppendSettles(r, ok) ==
    /\ pc[r] = "append"
    /\ appendReplies' = [appendReplies EXCEPT ![r] = Append(@, ok)]
    /\ sheet' = IF ok THEN sheet \o appendCalls[r][Len(appendCalls[r])] ELSE sheet
    /\ Respond(r, AppendSettled(ok, OrderData(r)))
    /\ UNCHANGED <<now, method, message, attempts, extractResult, genCalls,
                   genReplies, sleeps, appendCalls, readReplies>>

\* a GET /orders request arrives
GetOrders(r) ==
    /\ pc[r] = "idle"
    /\ method' = [method EXCEPT ![r] = "GET"]
    /\ pc' = [pc EXCEPT ![r] = "getClientRead"]
    /\ UNCHANGED <<now, sheet, message, attempts, extractResult, genCalls, genReplies,
                   sleeps, appendCalls, appendReplies, readReplies, responses>>

\* auth.getClient() of the GET handler settles; on success the get call
\* is made
GetClientReadSettles(r, ok) ==
    /\ pc[r] = "getClientRead"
    /\ IF ok
       THEN pc' = [pc EXCEPT ![r] = "read"] /\ UNCHANGED responses
       ELSE Respond(r, CatchResponse(StorageError))
    /\ UNCHANGED <<now, sheet, method, message, attempts, extractResult, genCalls,
                   genReplies, sleeps, appendCalls, appendReplies, readReplies>>

\* what a successful values.get may return of the sheet
ReadValues ==
    IF sheet = <<>> THEN {NoValues, SomeValues(<<>>)} ELSE {SomeValues(sheet)}

\* values.get fails
ReadFails(r) ==
    /\ pc[r] = "read"
    /\ Respond(r, CatchResponse(StorageError))
    /\ UNCHANGED <<now, sheet, method, message, attempts, extractResult, genCalls,
                   genReplies, sleeps, appendCalls, appendReplies, readReplies>>

\* values.get settles with the rows of the range
ReadSettles(r, values) ==
    /\ pc[r] = "read"
    /\ readReplies' = [readReplies EXCEPT ![r] = Append(@, values)]
    /\ Respond(r, OrdersResponse(OrdersOf(values)))
    /\ UNCHANGED <<now, sheet, method, message, attempts, extractResult, genCalls,
                   genReplies, sleeps, appendCalls, appendReplies>>

Next ==
    \/ \E r \in Requests, msg \in Messages : PostOrders(r, msg)
    \/ \E r \in Requests, outcome \in Outcomes : GenerateSettles(r, outcome)
    \/ \E r \in Requests : TimerFires(r)
    \/ Tick
    \/ \E r \in Requests, ok \in BOOLEAN : GetClientSettles(r, ok)
    \/ \E r \in Requests, ok \in BOOLEAN : AppendSettles(r, ok)
    \/ \E r \in Requests : GetOrders(r)
    \/ \E r \in Requests, ok \in BOOLEAN : GetClientReadSettles(r, ok)
    \/ \E r \in Requests : ReadFails(r)
    \/ \E r \in Requests, values \in ReadValues : ReadSettles(r, values)

Spec == Init /\ [][Next]_vars


(***************************************************************************)
(* The claims.                                                             *)
(***************************************************************************)
RateLimited == Failure(RateLimitError)

\* the first n calls of request r were all answered with a rate-limit error
RateLimitedUpTo(r, n) ==
    /\ n <= Len(genReplies[r])
    /\ \A i \in 1..n : genReplies[r][i] = RateLimited

\* request r has answered once, with this status
Answered(r, status) ==
    /\ pc[r] = "done"
    /\ Len(responses[r]) = 1
    /\ responses[r][1].status = status

\* C1: when every completion call of one extractOrder invocation is answered
\* with a rate-limit (429) error, extractOrder makes exactly 3 calls, waits
\* the fixed delay of 5 units (5 * 1000 ms) between consecutive calls, and
\* then fails with the exhausted error: never a 4th call, never a value.
C1_RateLimitedThrice ==
    \A r \in Requests :
        (genReplies[r] # <<>> /\ RateLimitedUpTo(r, Len(genReplies[r]))) =>
            /\ Len(genCalls[r]) <= 3
            /\ extractResult[r].state # "returned"
            /\ \A i \in 1..(Len(genCalls[r]) - 1) :
                  /\ sleeps[r][i].ms = 5 * 1000
                  /\ genCalls[r][i].at <= sleeps[r][i].at
                  /\ sleeps[r][i].at + 5 * 1000 <= genCalls[r][i + 1].at
            /\ pc[r] = "done" =>
                  /\ Len(genCalls[r]) = 3
                  /\ Len(genReplies[r]) = 3
                  /\ extractResult[r] = Threw(ExhaustedError)

C1_Witness ==
    \E r \in Requests :
        /\ RateLimitedUpTo(r, 3)
        /\ Len(genCalls[r]) = 3
        /\ extractResult[r] = Threw(ExhaustedError)
        /\ genCalls[r][3].at - genCalls[r][1].at = 2 * 5 * 1000

\* the attempt answered with outcome fails for a reason other than the rate
\* limit: an error of another status, no candidate, or a text whose JSON
\* candidate does not parse
FailsOtherwise(outcome) ==
    IF outcome.kind = "error"
    THEN outcome.error.status # Num(429)
    ELSE \/ outcome.texts = <<>>
         \/ ~JSONParse(CleanJson(StripFences(Trim(outcome.texts[1])))).ok

\* the error under that failure
Underlying(outcome) ==
    IF outcome.kind = "error" THEN outcome.error
    ELSE IF outcome.texts = <<>> THEN TypeError ELSE SyntaxError

\* C2: on any attempt (first, second or third), a completion call that fails
\* with an error other than the rate limit, or whose text does not parse as
\* JSON, makes extractOrder fail at once with that error: no delay after
\* that attempt and no further completion call.
C2_OtherErrorsFailAtOnce ==
    \A r \in Requests : \A i \in 1..Len(genReplies[r]) :
        FailsOtherwise(genReplies[r][i]) =>
            /\ Len(genReplies[r]) = i
            /\ Len(genCalls[r]) = i
            /\ Len(sleeps[r]) = i - 1
            /\ extractResult[r] = Threw(Underlying(genReplies[r][i]))
            /\ pc[r] = "done"

C2_Witness ==
    \E r \in Requests :
        /\ Len(genReplies[r]) = 2
        /\ genReplies[r][2].kind = "response"
        /\ extractResult[r] = Threw(SyntaxError)
        /\ Len(sleeps[r]) = 1

\* the text itself is valid JSON
ValidJson(text) == JSONParse(text).ok

\* request r got k rate-limit errors and then a response with this text
RateLimitedThenText(r, k, text) ==
    /\ Len(genReplies[r]) = k + 1
    /\ RateLimitedUpTo(r, k)
    /\ genReplies[r][k + 1] = Response(<<text>>)

\* C3, as stated: after k rate-limit errors (k = 1 or 2) and then a response
\* holding valid JSON, extractOrder succeeds, returns the parsed JSON value,
\* and has made exactly k + 1 completion calls.
C3_Original ==
    \A r \in Requests : \A k \in {1, 2} : \A text \in Texts :
        (RateLimitedThenText(r, k, text) /\ ValidJson(text)) =>
            /\ extractResult[r] = Returned(JSONParse(text).val)
            /\ Len(genCalls[r]) = k + 1

\* C3, amended: the same for a response whose text is a valid JSON object
\* and holds no code-fence marker.
C3_RetryThenObject ==
    \A r \in Requests : \A k \in {1, 2} : \A text \in Texts :
        ( /\ RateLimitedThenText(r, k, text)
          /\ ValidJson(text)
          /\ JSONParse(text).val.t = "object"
          /\ \A i \in 1..Len(text) : text[i] # Fence ) =>
            /\ extractResult[r] = Returned(JSONParse(text).val)
            /\ Len(genCalls[r]) = k + 1

C3_Witness ==
    \E r \in Requests :
        /\ RateLimitedThenText(r, 1, Stringify(OrderTwoItems))
        /\ extractResult[r] = Returned(OrderTwoItems)
        /\ Len(genCalls[r]) = 2

\* C4: a POST /orders request whose message is missing or falsy is answered
\* 400 with an error, and neither the completion service nor the storage
\* backend is called during it.
C4_MissingMessage ==
    \A r \in Requests :
        (method[r] = "POST" /\ Falsy(message[r])) =>
            /\ Answered(r, 400)
            /\ "error" \in DOMAIN responses[r][1].body
            /\ genCalls[r] = <<>>
            /\ appendCalls[r] = <<>>
            /\ readReplies[r] = <<>>

C4_Witness ==
    \E r \in Requests :
        /\ method[r] = "POST"
        /\ message[r] = Str("")
        /\ Answered(r, 400)

\* extractOrder returned an order to request r whose items is this value
ExtractedItems(r, items) ==
    /\ extractResult[r].state = "returned"
    /\ OrderData(r).t = "object"
    /\ Get(OrderData(r), "items") = items

\* C5: a POST /orders request whose message extracts to an order with an
\* empty items sequence is answered 500.
C5_EmptyItemsRejected ==
    \A r \in Requests :
        (pc[r] = "done" /\ ExtractedItems(r, Arr(<<>>))) => Answered(r, 500)

\* the row the append should carry for line item it of order
ExpectedRow(it, order, timestamp) ==
    << timestamp, Get(it, "item"), Get(it, "quantity"), Get(it, "unit"),
       Get(it, "price"), Get(it, "total_price"), Get(order, "customer_name"),
       Str("Pending"), Get(order, "payment_mode") >>

\* C6: for an extracted order with n line items, POST /orders issues exactly
\* one append call carrying n rows in item order, the i-th row being
\* [timestamp, item, quantity, unit, price, total_price, the order's customer
\* name, "Pending", the order's payment mode] of the i-th line item.
C6_OneRowPerItem ==
    \A r \in Requests :
        appendCalls[r] # <<>> =>
            LET items == Get(OrderData(r), "items").a
                rows == appendCalls[r][1]
            IN  /\ Len(appendCalls[r]) = 1
                /\ Len(rows) = Len(items)
                /\ \A i \in 1..Len(rows) :
                      /\ rows[i][1].t = "string"
                      /\ rows[i] = ExpectedRow(items[i], OrderData(r), rows[i][1])

\* row stands in the sheet because a POST /orders request appended it
Appended(row) ==
    \E p \in Requests :
        /\ appendReplies[p] = <<TRUE>>
        /\ \E j \in 1..Len(appendCalls[p][1]) : appendCalls[p][1][j] = row

\* C7: the record GET /orders builds from a row that POST /orders appended
\* has datetime, item, quantity, unit, price, total_price, customer_name,
\* status and payment_mode equal to the timestamp, item name, quantity, unit,
\* price, total_price, customer name, status and payment mode written.
C7_RoundTrip ==
    \A g \in Requests :
        (readReplies[g] # <<>> /\ Answered(g, 200)) =>
            LET rows == readReplies[g][1].rows
                orders == responses[g][1].body.orders
            IN  \A k \in 1..Len(orders) :
                    Appended(rows[k + 1]) =>
                        /\ orders[k].datetime = rows[k + 1][1]
                        /\ orders[k].item = rows[k + 1][2]
                        /\ orders[k].quantity = rows[k + 1][3]
                        /\ orders[k].unit = rows[k + 1][4]
                        /\ orders[k].price = rows[k + 1][5]
                        /\ orders[k].total_price = rows[k + 1][6]
                        /\ orders[k].customer_name = rows[k + 1][7]
                        /\ orders[k].status = rows[k + 1][8]
                        /\ orders[k].payment_mode = rows[k + 1][9]

\* C8: a range of n rows that is read successfully is answered 200 with
\* success true and max(n - 1, 0) records: the first row is skipped, the
\* k-th record is built from row k + 1 and has id k; an empty or absent
\* range gives the empty orders array.
C8_ReadSkipsHeader ==
    \A r \in Requests :
        readReplies[r] # <<>> =>
            LET rows == readReplies[r][1].rows
                n == IF readReplies[r][1].present THEN Len(rows) ELSE 0
            IN  /\ Answered(r, 200)
                /\ responses[r][1].body.success = TRUE
                /\ Len(responses[r][1].body.orders) = (IF n >= 1 THEN n - 1 ELSE 0)
                /\ \A k \in 1..Len(responses[r][1].body.orders) :
                      /\ responses[r][1].body.orders[k].id = k
                      /\ responses[r][1].body.orders[k] = Record(rows[k + 1], k - 1)

C8_Witness ==
    \E r \in Requests :
        /\ readReplies[r] # <<>>
        /\ Len(readReplies[r][1].rows) = 4
        /\ Len(responses[r][1].body.orders) = 3
        /\ responses[r][1].body.orders[3].id = 3

\* items of the value is present and is a sequence
ItemsIsSequence(val) == val.t = "object" /\ Get(val, "items").t = "array"

\* C9: in every POST /orders request the append is issued at most once and
\* only after extractOrder returned a value whose items is a sequence; a
\* request that ends with an extraction failure or a malformed order is
\* answered 500 and issues no append.
C9_AppendOnlyAfterValidation ==
    \A r \in Requests :
        /\ Len(appendCalls[r]) <= 1
        /\ appendCalls[r] # <<>> =>
              /\ extractResult[r].state = "returned"
              /\ ItemsIsSequence(OrderData(r))
        /\ ( /\ pc[r] = "done"
             /\ \/ extractResult[r].state = "threw"
                \/ extractResult[r].state = "returned" /\ ~ItemsIsSequence(OrderData(r)) ) =>
              /\ Answered(r, 500)
              /\ "error" \in DOMAIN responses[r][1].body
              /\ appendCalls[r] = <<>>

C9_Witness ==
    \E r, q \in Requests :
        /\ extractResult[r] = Returned(OrderItemsNotArray)
        /\ Answered(r, 500)
        /\ extractResult[q].state = "threw"
        /\ Answered(q, 500)

\* C10: a POST /orders request that completes sends exactly one response; it
\* is the 200 success response only if the append call of the request
\* succeeded before; if the append fails the request is answered 500 with an
\* error, and the append is not retried.
C10_OneResponse ==
    \A r \in Requests :
        method[r] = "POST" =>
            /\ Len(responses[r]) = (IF pc[r] = "done" THEN 1 ELSE 0)
            /\ (responses[r] # <<>> /\ responses[r][1].status = 200) =>
                  appendReplies[r] = <<TRUE>>
            /\ (appendReplies[r] # <<>> /\ ~appendReplies[r][1]) =>
                  /\ Answered(r, 500)
                  /\ "error" \in DOMAIN responses[r][1].body
                  /\ Len(appendCalls[r]) = 1
                  /\ Len(appendReplies[r]) = 1

C10_Witness ==
    \E r, q \in Requests :
        /\ appendReplies[r] = <<FALSE>>
        /\ Answered(r, 500)
        /\ appendReplies[q] = <<TRUE>>
        /\ Answered(q, 200)


====
